---- MODULE Spec2Model ----
(***************************************************************************)
(* A model of exrio's Python image layer (src/src/exrio/image.py): the     *)
(* ExrChannel / ExrLayer / ExrImage data model, the tensor conversions     *)
(* from_pixels / to_pixels, the module-level PRIMARY_CHROMATICITIES table, *)
(* and the adapter to the compiled codec (exrio._rust).                    *)
(*                                                                         *)
(* Python values are modelled as follows.                                  *)
(*   numpy array      [dtype, shape, data] with data the C-order flattening*)
(*   Optional[x]      <<>> for None, <<x>> otherwise                       *)
(*   dict             a function whose DOMAIN is the set of keys; a value  *)
(*                    is [type, repr] so that int and str values coexist   *)
(*   Chromaticities   an object in `heap`, referred to by its identity, as *)
(*                    the dataclass is mutable and shared by reference     *)
(*   float (x, y)     a pair of integers, the coordinate times 100000      *)
(***************************************************************************)
EXTENDS Integers, Sequences, FiniteSets, TLC

VARIABLES heap, images, origin, call, result

vars == <<heap, images, origin, call, result>>

(***************************************************************************)
(* Bounds of the model.                                                    *)
(***************************************************************************)
MaxDim == 2
MaxLayers == 2
MaxBase == 1
MaxImages == 2

Slots == 1..MaxImages

(***************************************************************************)
(* Generic helpers.                                                        *)
(***************************************************************************)
None == <<>>

Some(x) == <<x>>

Range(s) == {s[i] : i \in 1..Len(s)}

Take(s, n) == SubSeq(s, 1, IF n < Len(s) THEN n ELSE Len(s))

RECURSIVE Product(_)
Product(s) == IF s = <<>> THEN 1 ELSE Head(s) * Product(Tail(s))

EmptyDict == <<>>

StrVal(s) == [type |-> "str", repr |-> s]

IntVal(s) == [type |-> "int", repr |-> s]

(***************************************************************************)
(* numpy arrays.                                                           *)
(***************************************************************************)
NdArray(dtype, shape, data) == [dtype |-> dtype, shape |-> shape, data |-> data]

\* ndarray.flatten(): one dimension, same elements in C order.
Flatten(a) == NdArray(a.dtype, <<Len(a.data)>>, a.data)

\* ndarray.reshape(h, w): legal only when the element count is h * w.
CanReshape(a, h, w) == Len(a.data) = h * w

Reshape(a, h, w) == NdArray(a.dtype, <<h, w>>, a.data)

\* ndarray.astype(dtype): the integer values are kept as they are.
AsType(a, dtype) == NdArray(dtype, a.shape, a.data)

\* pixels[..., idx] of an (H, W, C) array, idx counted from 0: an (H, W) array.
LastAxisSlice(a, idx) ==
    LET h == a.shape[1]
        w == a.shape[2]
        c == a.shape[3]
    IN  NdArray(a.dtype, <<h, w>>, [i \in 1..(h * w) |-> a.data[(i - 1) * c + idx + 1]])

\* numpy's result type of two of the dtypes that occur here.
PromoteTypes(d1, d2) ==
    IF d1 = d2 THEN d1
    ELSE IF {d1, d2} = {"float16", "float32"} THEN "float32"
    ELSE IF {d1, d2} = {"uint8", "uint32"} THEN "uint32"
    ELSE IF {d1, d2} = {"uint8", "float16"} THEN "float16"
    ELSE IF {d1, d2} = {"uint8", "float32"} THEN "float32"
    ELSE "float64"

RECURSIVE ResultType(_)
ResultType(ds) ==
    IF Len(ds) = 1 THEN ds[1] ELSE PromoteTypes(ds[1], ResultType(Tail(ds)))

\* np.stack(planes, axis=-1) of k arrays of one shape (h, w): shape (h, w, k).
StackLast(planes) ==
    LET k == Len(planes)
        n == Len(planes[1].data)
    IN  NdArray(ResultType([i \in 1..k |-> planes[i].dtype]),
                planes[1].shape \o <<k>>,
                [j \in 1..(n * k) |-> planes[((j - 1) % k) + 1].data[((j - 1) \div k) + 1]])

(***************************************************************************)
(* What a call returns or raises.                                          *)
(***************************************************************************)
\* err is the exception's class, why the check that raised it.
Return(kind, v) == [kind |-> kind, err |-> "", why |-> "", val |-> <<v>>]

Raise(e, why) == [kind |-> "error", err |-> e, why |-> why, val |-> <<>>]

NoResult == [kind |-> "none", err |-> "", why |-> "", val |-> <<>>]

(***************************************************************************)
(* Colorspace (an Enum of str) and the Chromaticities table.               *)
(***************************************************************************)
Colorspace == [sRGB |-> "sRGB", ACES |-> "ACES 2065-1", ACEScg |-> "ACEScg", ACEScct |-> "ACEScct"]

Chromaticities(red, green, blue, white) ==
    [red |-> red, green |-> green, blue |-> blue, white |-> white]

\* The values the module assigns to the table when it is imported.
PublishedChromaticities ==
    [AP0  |-> Chromaticities(<<73470, 26530>>, <<0, 100000>>, <<10, -7700>>, <<32168, 33767>>),
     AP1  |-> Chromaticities(<<71300, 29300>>, <<16500, 83000>>, <<12800, 4400>>, <<32168, 33767>>),
     sRGB |-> Chromaticities(<<64000, 33000>>, <<30000, 60000>>, <<15000, 6000>>, <<31270, 32900>>)]

PrimaryNames == {"AP0", "AP1", "sRGB"}

\* PRIMARY_CHROMATICITIES[name]: the one Chromaticities object of that entry.
PRIMARY_CHROMATICITIES(name) == name

(***************************************************************************)
(* The dataclasses.                                                        *)
(***************************************************************************)
ExrChannel(name, width, height, pixels) ==
    [name |-> name, width |-> width, height |-> height, pixels |-> pixels]

ExrLayer(width, height, channels, name, attributes, chromaticities) ==
    [width |-> width, height |-> height, channels |-> channels, name |-> name,
     attributes |-> attributes, chromaticities |-> chromaticities]

ExrImage(layers, attributes) == [layers |-> layers, attributes |-> attributes]

(***************************************************************************)
(* Tensor to image.                                                        *)
(***************************************************************************)
RGBA == <<"R", "G", "B", "A">>

AcesFlagAttributes == [k \in {"Aces Image Container Flag"} |-> IntVal("1")]

\* _from_pixels as it would be without its assertion on the dtype.
ExrImage__from_pixels_unchecked(pixels, chromaticities) ==
    IF Len(pixels.shape) # 3 THEN Raise("ValueError", "unpack shape")
    ELSE LET height == pixels.shape[1]
             width == pixels.shape[2]
             channel_count == pixels.shape[3]
         IN  IF channel_count \notin {3, 4} THEN Raise("AssertionError", "channel count")
             ELSE LET channel_names == Take(RGBA, channel_count)
                      channels == [i \in 1..Len(channel_names) |->
                                      ExrChannel(channel_names[i], width, height,
                                                 Flatten(LastAxisSlice(pixels, i - 1)))]
                      layer == ExrLayer(width, height, channels, None, EmptyDict,
                                        Some(chromaticities))
                  IN  Return("image", ExrImage(<<layer>>, AcesFlagAttributes))

ExrImage__from_pixels(pixels, chromaticities) ==
    IF pixels.dtype \notin {"float16", "float32", "uint32"}
    THEN Raise("AssertionError", "dtype")
    ELSE IF Len(pixels.shape) # 3 THEN Raise("ValueError", "unpack shape")
    ELSE LET height == pixels.shape[1]
             width == pixels.shape[2]
             channel_count == pixels.shape[3]
         IN  IF channel_count \notin {3, 4} THEN Raise("AssertionError", "channel count")
             ELSE LET channel_names == Take(RGBA, channel_count)
                      channels == [i \in 1..Len(channel_names) |->
                                      ExrChannel(channel_names[i], width, height,
                                                 Flatten(LastAxisSlice(pixels, i - 1)))]
                      layer == ExrLayer(width, height, channels, None, EmptyDict,
                                        Some(chromaticities))
                  IN  Return("image", ExrImage(<<layer>>, AcesFlagAttributes))

\* from_pixels_aces as it would be without its own assertion on the dtype.
ExrImage_from_pixels_aces_unchecked(pixels) ==
    ExrImage__from_pixels(pixels, PRIMARY_CHROMATICITIES("AP0"))

ExrImage_from_pixels_aces(pixels) ==
    IF pixels.dtype \notin {"float16", "float32"} THEN Raise("AssertionError", "dtype")
    ELSE ExrImage__from_pixels(pixels, PRIMARY_CHROMATICITIES("AP0"))

ExrImage_from_pixels_acescg(pixels) ==
    IF pixels.dtype \notin {"float16", "float32"} THEN Raise("AssertionError", "dtype")
    ELSE ExrImage__from_pixels(pixels, PRIMARY_CHROMATICITIES("AP1"))

ExrImage_from_pixels_acescct(pixels) ==
    IF pixels.dtype \notin {"float16", "float32"} THEN Raise("AssertionError", "dtype")
    ELSE ExrImage__from_pixels(pixels, PRIMARY_CHROMATICITIES("AP1"))

ExrImage_from_pixels_srgb(pixels) ==
    ExrImage__from_pixels(IF pixels.dtype = "uint8" THEN AsType(pixels, "uint32") ELSE pixels,
                          PRIMARY_CHROMATICITIES("sRGB"))

ExrImage_from_pixels(pixels, colorspace) ==
    IF colorspace = Colorspace.ACES THEN ExrImage_from_pixels_aces(pixels)
    ELSE IF colorspace = Colorspace.ACEScg THEN ExrImage_from_pixels_acescg(pixels)
    ELSE IF colorspace = Colorspace.ACEScct THEN ExrImage_from_pixels_acescct(pixels)
    ELSE IF colorspace = Colorspace.sRGB THEN ExrImage_from_pixels_srgb(pixels)
    ELSE Raise("ValueError", "colorspace")

\* A call ExrImage.from_pixels(pixels[, colorspace][, layer_names=...]) as Python
\* binds it to the signature (pixels, colorspace=Colorspace.sRGB): a keyword the
\* signature does not have is a TypeError raised before the body runs.
CallFromPixels(args) ==
    IF args.layer_names # None THEN Raise("TypeError", "unexpected keyword")
    ELSE ExrImage_from_pixels(args.pixels,
                              IF args.colorspace = None THEN Colorspace.sRGB
                              ELSE args.colorspace[1])

\* load(path_or_buffer) with an ndarray.
load_ndarray(pixels) == ExrImage_from_pixels(pixels, Colorspace.sRGB)

(***************************************************************************)
(* Image to tensor.                                                        *)
(***************************************************************************)
ExrImage_to_pixels(image) ==
    IF Len(image.layers) # 1 THEN Raise("AssertionError", "ambiguous reference")
    ELSE LET layer == image.layers[1]
         IN  IF \E i \in 1..Len(layer.channels) :
                    ~CanReshape(layer.channels[i].pixels, layer.height, layer.width)
             THEN Raise("ValueError", "reshape")
             ELSE IF layer.channels = <<>> THEN Raise("ValueError", "stack")
             ELSE Return("pixels",
                         StackLast([i \in 1..Len(layer.channels) |->
                                       Reshape(layer.channels[i].pixels,
                                               layer.height, layer.width)]))

(***************************************************************************)
(* The adapter to the compiled codec: what Python hands to exrio._rust.    *)
(***************************************************************************)
RustLayer(name, width, height, attributes, channels) ==
    [name |-> name, width |-> width, height |-> height,
     attributes |-> attributes, channels |-> channels]

RustImage(attributes, layers) == [attributes |-> attributes, layers |-> layers]

\* The assertion of ExrLayer._to_rust on every channel's dtype.
LayerDtypesOk(layer) ==
    \A i \in 1..Len(layer.channels) :
        layer.channels[i].pixels.dtype \in {"float16", "float32", "uint32"}

\* ExrLayer._to_rust: name, width, height, attributes and the channels in the
\* layer's order, each as its flattened samples. The chromaticities field is
\* not handed over.
ExrLayer__to_rust(layer) ==
    RustLayer(layer.name, layer.width, layer.height, layer.attributes,
              [i \in 1..Len(layer.channels) |->
                  [name |-> layer.channels[i].name,
                   pixels |-> Flatten(layer.channels[i].pixels)]])

ExrImage__to_rust(image) ==
    RustImage(image.attributes,
              [i \in 1..Len(image.layers) |-> ExrLayer__to_rust(image.layers[i])])

\* _pixels_from_layer: every plane the codec returns, reshaped to (height, width).
pixels_from_layer(rust_layer) ==
    [i \in 1..Len(rust_layer.channels) |->
        Reshape(rust_layer.channels[i].pixels, rust_layer.height, rust_layer.width)]

\* ExrLayer._from_rust: channels in the order the codec reports them; the
\* chromaticities field keeps its default, None.
ExrLayer__from_rust(rust_layer) ==
    LET channel_pixels == pixels_from_layer(rust_layer)
    IN  ExrLayer(rust_layer.width, rust_layer.height,
                 [i \in 1..Len(rust_layer.channels) |->
                     ExrChannel(rust_layer.channels[i].name, rust_layer.width,
                                rust_layer.height, channel_pixels[i])],
                 rust_layer.name, rust_layer.attributes, None)

ExrImage__from_rust(rust_image) ==
    ExrImage([i \in 1..Len(rust_image.layers) |-> ExrLayer__from_rust(rust_image.layers[i])],
             rust_image.attributes)

(***************************************************************************)
(* The compiled codec (exrio._rust). Its source is not part of the Python  *)
(* package; it is modelled from its contract and from what the repository's*)
(* tests observe of it: channels come back in alphabetical storage order   *)
(* ("Saved as BGR, not RGB"), attributes given to the image are read back  *)
(* on its layers, and names, dtypes and samples are kept.                  *)
(***************************************************************************)
ChannelNameOrder == <<"A", "B", "G", "R", "testc">>

NameRank(n) == CHOOSE i \in 1..Len(ChannelNameOrder) : ChannelNameOrder[i] = n

\* The channels of a layer in alphabetical order of their names.
SortChannels(channels) ==
    LET IsSorted(p) == \A i, j \in 1..Len(p) :
                           i < j => NameRank(channels[p[i]].name) < NameRank(channels[p[j]].name)
        perms == {p \in [1..Len(channels) -> 1..Len(channels)] :
                     /\ \A i, j \in 1..Len(channels) : i # j => p[i] # p[j]
                     /\ IsSorted(p)}
        perm == CHOOSE p \in perms : TRUE
    IN  [i \in 1..Len(channels) |-> channels[perm[i]]]

HasNonStringValue(attributes) == \E k \in DOMAIN attributes : attributes[k].type # "str"

Stringify(attributes) == [k \in DOMAIN attributes |-> StrVal(attributes[k].repr)]

MergeDicts(d1, d2) ==
    [k \in (DOMAIN d1) \cup (DOMAIN d2) |-> IF k \in DOMAIN d1 THEN d1[k] ELSE d2[k]]

\* A file has at least one layer and stores width * height samples for every
\* channel of a layer: the codec takes no other image.
CodecAccepts(rust_image) ==
    /\ Len(rust_image.layers) >= 1
    /\ \A i \in 1..Len(rust_image.layers) : \A k \in 1..Len(rust_image.layers[i].channels) :
        Len(rust_image.layers[i].channels[k].pixels.data)
            = rust_image.layers[i].width * rust_image.layers[i].height

\* RustImage.save_to_buffer: the file the codec writes.
save_to_buffer(rust_image) ==
    RustImage(Stringify(rust_image.attributes),
              [i \in 1..Len(rust_image.layers) |->
                  LET l == rust_image.layers[i]
                  IN  RustLayer(l.name, l.width, l.height, Stringify(l.attributes),
                                SortChannels(l.channels))])

\* RustImage.load_from_buffer: the header attributes are reported on every
\* layer; whether the image reports them as well is left open (keep).
load_from_buffer(buffer, keep) ==
    RustImage(IF keep THEN buffer.attributes ELSE EmptyDict,
              [i \in 1..Len(buffer.layers) |->
                  LET l == buffer.layers[i]
                  IN  RustLayer(l.name, l.width, l.height,
                                MergeDicts(l.attributes, buffer.attributes), l.channels)])

\* What stops ExrLayer._to_rust, if anything: with_attributes comes before
\* the assertion on the channels' dtypes.
LayerToRustError(layer, strict) ==
    IF strict /\ HasNonStringValue(layer.attributes) THEN Raise("TypeError", "attribute value")
    ELSE IF ~LayerDtypesOk(layer) THEN Raise("AssertionError", "dtype")
    ELSE NoResult

\* ExrImage.to_buffer: the image's attributes are handed over first, then
\* the layers in order. Whether the codec takes an attribute value that is
\* not a str is left open (strict): it raises, or it writes the value's text.
ExrImage_to_buffer(image, strict) ==
    LET failing == {i \in 1..Len(image.layers) :
                       LayerToRustError(image.layers[i], strict).kind = "error"}
    IN  IF strict /\ HasNonStringValue(image.attributes)
        THEN Raise("TypeError", "attribute value")
        ELSE IF failing # {}
        THEN LayerToRustError(image.layers[CHOOSE i \in failing : \A j \in failing : i <= j],
                              strict)
        ELSE IF ~CodecAccepts(ExrImage__to_rust(image))
        THEN Raise("ValueError", "codec")
        ELSE Return("bytes", save_to_buffer(ExrImage__to_rust(image)))

\* ExrImage.from_buffer.
ExrImage_from_buffer(buffer, keep) ==
    Return("image", ExrImage__from_rust(load_from_buffer(buffer, keep)))

(***************************************************************************)
(* The colorspace classifier (the inferred_colorspace the tests read). It  *)
(* is not in image.py; it is modelled from the design: a recognized        *)
(* container-flag attribute on the image or its layer first, then exact    *)
(* equality of the layer's chromaticities with a table entry, else unknown.*)
(***************************************************************************)
ColorspaceFlagKey == "Colorspace Container Flag"

KnownTags == {"sRGB", "ACES 2065-1", "ACEScg", "ACEScct", "ACEScc", "LinearRGB"}

Unknown == "unknown"

HasFlag(attributes) ==
    /\ ColorspaceFlagKey \in DOMAIN attributes
    /\ attributes[ColorspaceFlagKey].type = "str"
    /\ attributes[ColorspaceFlagKey].repr \in KnownTags

\* The tag of the primaries whose table entry equals the chromaticities c.
TagOfPrimaries(c, table) ==
    IF c = table["AP0"] THEN "ACES 2065-1"
    ELSE IF c = table["AP1"] THEN "ACEScg"
    ELSE IF c = table["sRGB"] THEN "sRGB"
    ELSE Unknown

\* inferred_colorspace as it would be with the two tests in the other order.
inferred_colorspace_primaries_first(image, objects) ==
    IF image.layers # <<>> /\ image.layers[1].chromaticities # None
          /\ TagOfPrimaries(objects[image.layers[1].chromaticities[1]], objects) # Unknown
    THEN TagOfPrimaries(objects[image.layers[1].chromaticities[1]], objects)
    ELSE IF HasFlag(image.attributes) THEN image.attributes[ColorspaceFlagKey].repr
    ELSE IF image.layers # <<>> /\ HasFlag(image.layers[1].attributes)
         THEN image.layers[1].attributes[ColorspaceFlagKey].repr
    ELSE Unknown

inferred_colorspace(image, objects) ==
    IF HasFlag(image.attributes) THEN image.attributes[ColorspaceFlagKey].repr
    ELSE IF image.layers # <<>> /\ HasFlag(image.layers[1].attributes)
         THEN image.layers[1].attributes[ColorspaceFlagKey].repr
    ELSE IF image.layers # <<>> /\ image.layers[1].chromaticities # None
         THEN TagOfPrimaries(objects[image.layers[1].chromaticities[1]], objects)
    ELSE Unknown

(***************************************************************************)
(* Inputs.                                                                 *)
(***************************************************************************)
Dtypes == {"float16", "float32", "uint32", "uint8", "float64"}

ChannelCounts == 1..4

\* Samples base, base + 1, ...: every element of a tensor differs from the
\* others, so a misplaced sample shows.
Ramp(base, n) == [i \in 1..n |-> base + i - 1]

Tensor(dtype, shape, base) == NdArray(dtype, shape, Ramp(base, Product(shape)))

Tensors3(dim, maxbase) ==
    {Tensor(d, <<h, w, c>>, b) :
        d \in Dtypes, h \in 1..dim, w \in 1..dim, c \in ChannelCounts, b \in 0..maxbase}

Tensors4(dim, maxbase) ==
    {Tensor(d, <<n, h, w, c>>, b) :
        d \in Dtypes, n \in 1..MaxLayers, h \in 1..dim, w \in 1..dim,
        c \in ChannelCounts, b \in 0..maxbase}

\* The colorspace argument: omitted, or a tag given by its string value
\* (Colorspace is an Enum of str, so a member equals its value).
ColorspaceArgs == {None} \cup {Some(c) : c \in KnownTags}

LayerNamePool == <<"mask", "depth", "color", "beauty">>

LayerNamesArgs == {None} \cup {Some(Take(LayerNamePool, n)) : n \in 1..(MaxLayers + 1)}

FromPixelsArgs(pixels, colorspace, layer_names) ==
    [pixels |-> pixels, colorspace |-> colorspace, layer_names |-> layer_names]

\* The Chromaticities values a caller attaches to a layer it builds itself.
CustomChromaticities ==
    Chromaticities(<<70800, 29200>>, <<17000, 79700>>, <<13100, 4600>>, <<31270, 32900>>)

CallerChromaticities ==
    {PublishedChromaticities[n] : n \in PrimaryNames} \cup {CustomChromaticities}

\* The identity of the Chromaticities object the caller made for the image of slot s.
OwnId(s) == "own" \o ToString(s)

\* An image a caller builds with the dataclass constructors: n layers of one
\* shape, the channels named as in names, channel i holding its own ramp.
BuiltLayer(i, names, dtype, h, w, named, attributes, chromaticities) ==
    ExrLayer(w, h,
             [k \in 1..Len(names) |->
                 ExrChannel(names[k], w, h, NdArray(dtype, <<h, w>>, Ramp(10 * k + i, h * w)))],
             IF named THEN Some(LayerNamePool[i]) ELSE None,
             attributes, chromaticities)

BuiltImage(n, names, dtype, h, w, named, image_attributes, layer_attributes, chromaticities) ==
    ExrImage([i \in 1..n |->
                 BuiltLayer(i, names, dtype, h, w, named, layer_attributes, chromaticities)],
             image_attributes)

(***************************************************************************)
(* State: the Chromaticities objects alive (the three of the table and the *)
(* ones callers made), the images the caller holds, for each the call that *)
(* made it, the last call and what it returned.                            *)
(***************************************************************************)
Init ==
    /\ heap = PublishedChromaticities
    /\ images = [s \in Slots |-> None]
    /\ origin = [s \in Slots |-> None]
    /\ call = [op |-> "none", slot |-> 0, args |-> <<>>]
    /\ result = NoResult

\* The objects left when the image of slot s is dropped.
Drop(s) == [o \in (DOMAIN heap) \ {OwnId(s)} |-> heap[o]]

\* What is remembered of the call c that made an image: the operation, and
\* for a tensor conversion its arguments.
Origin(c) ==
    [op |-> c.op, args |-> IF c.op \in {"from_pixels", "load"} THEN c.args ELSE <<>>]

\* image = ExrImage.from_pixels(pixels, ...): the variable is assigned only
\* when the call returns.
Assign(s, r) ==
    IF r.kind = "image"
    THEN /\ images' = [images EXCEPT ![s] = Some(r.val[1])]
         /\ origin' = [origin EXCEPT ![s] = Some(Origin(call'))]
         /\ heap' = Drop(s)
    ELSE UNCHANGED <<images, origin, heap>>

FromPixels(s, args) ==
    /\ call' = [op |-> "from_pixels", slot |-> s, args |-> <<args>>]
    /\ result' = CallFromPixels(args)
    /\ Assign(s, CallFromPixels(args))

Load(s, pixels) ==
    /\ call' = [op |-> "load", slot |-> s,
                args |-> <<FromPixelsArgs(pixels, None, None)>>]
    /\ result' = load_ndarray(pixels)
    /\ Assign(s, load_ndarray(pixels))

ToPixels(s) ==
    /\ images[s] # None
    /\ call' = [op |-> "to_pixels", slot |-> s, args |-> <<images[s][1]>>]
    /\ result' = ExrImage_to_pixels(images[s][1])
    /\ UNCHANGED <<images, origin, heap>>

\* ExrImage(layers=[ExrLayer(...)], attributes=...) by the caller, with or
\* without a Chromaticities object of its own on every layer.
Construct(s, image, chromaticities) ==
    /\ images' = [images EXCEPT ![s] = Some(image)]
    /\ heap' = IF chromaticities = None THEN Drop(s)
               ELSE [o \in (DOMAIN heap) \cup {OwnId(s)} |->
                        IF o = OwnId(s) THEN chromaticities[1] ELSE heap[o]]
    /\ call' = [op |-> "construct", slot |-> s, args |-> <<image>>]
    /\ origin' = [origin EXCEPT ![s] = Some(Origin(call'))]
    /\ result' = Return("image", image)

\* image.layers[0].chromaticities.red = (0.5, 0.5): an assignment to a field
\* of the object the layer refers to.
SetRed(s) ==
    /\ images[s] # None
    /\ images[s][1].layers # <<>>
    /\ images[s][1].layers[1].chromaticities # None
    /\ heap' = [heap EXCEPT ![images[s][1].layers[1].chromaticities[1]].red = <<50000, 50000>>]
    /\ call' = [op |-> "set_red", slot |-> s, args |-> <<images[s][1]>>]
    /\ result' = NoResult
    /\ UNCHANGED <<images, origin>>

ToBuffer(s, strict) ==
    /\ images[s] # None
    /\ call' = [op |-> "to_buffer", slot |-> s, args |-> <<images[s][1]>>]
    /\ result' = ExrImage_to_buffer(images[s][1], strict)
    /\ UNCHANGED <<images, origin, heap>>

\* load(buffer) of the buffer that to_buffer has just returned.
FromBuffer(s, keep) ==
    /\ call.op = "to_buffer"
    /\ result.kind = "bytes"
    /\ call' = [op |-> "from_buffer", slot |-> s, args |-> call.args]
    /\ result' = ExrImage_from_buffer(result.val[1], keep)
    /\ Assign(s, ExrImage_from_buffer(result.val[1], keep))

InferColorspace(s) ==
    /\ images[s] # None
    /\ call' = [op |-> "inferred_colorspace", slot |-> s, args |-> <<images[s][1]>>]
    /\ result' = Return("colorspace", inferred_colorspace(images[s][1], heap))
    /\ UNCHANGED <<images, origin, heap>>

(***************************************************************************)
(* Spec: the caller holds up to MaxImages images made from tensors of one  *)
(* sample per channel, and calls the operations in any order.              *)
(***************************************************************************)
SmallTensors == {Tensor(d, <<1, 1, 3>>, 0) : d \in {"float32", "uint8"}}

Next ==
    \/ \E s \in Slots, pixels \in SmallTensors, colorspace \in ColorspaceArgs :
          FromPixels(s, FromPixelsArgs(pixels, colorspace, None))
    \/ \E s \in Slots : ToPixels(s)
    \/ \E s \in Slots : SetRed(s)
    \/ \E s \in Slots, strict \in BOOLEAN : ToBuffer(s, strict)
    \/ \E s \in Slots, keep \in BOOLEAN : FromBuffer(s, keep)
    \/ \E s \in Slots : InferColorspace(s)

Spec == Init /\ [][Next]_vars

(***************************************************************************)
(* SpecInputs: one input is drawn at the start, the arguments of a         *)
(* from_pixels call or the image a caller is about to build, and the       *)
(* operations are applied to it and to what they return. The image goes to *)
(* the first slot, what is decoded to the last.                            *)
(***************************************************************************)
TensorInputs ==
    {FromPixelsArgs(pixels, colorspace, None) :
        pixels \in Tensors3(MaxDim, MaxBase), colorspace \in ColorspaceArgs}
    \cup {FromPixelsArgs(pixels, None, layer_names) :
             pixels \in Tensors3(MaxDim, 0) \cup Tensors4(MaxDim, MaxBase),
             layer_names \in LayerNamesArgs}

Attr(k, v) == [x \in {k} |-> StrVal(v)]

ImageAttributeChoices ==
    {EmptyDict, Attr("artist", "jane")}
    \cup {Attr(ColorspaceFlagKey, t) : t \in {"ACEScct", "LinearRGB"}}

LayerAttributeChoices ==
    {EmptyDict, Attr("number", "42")}
    \cup {Attr(ColorspaceFlagKey, t) : t \in {"ACEScct", "ACEScc"}}

ChannelOrders == {<<"R", "G", "B">>, <<"B", "G", "R">>, <<"R", "G", "B", "A">>, <<"testc">>}

BuildArgs(image, chromaticities) == [image |-> image, chromaticities |-> chromaticities]

\* Built images that differ in their pixels: channel order, dtype, shape, layers.
PixelBuilds ==
    {BuildArgs(BuiltImage(n, names, d, h, w, n > 1, EmptyDict, EmptyDict, None), None) :
        n \in 1..MaxLayers, names \in ChannelOrders,
        d \in {"float16", "float32", "uint32", "uint8"},
        h \in 1..MaxDim, w \in 1..MaxDim}

\* Built images that differ in their metadata: attributes and chromaticities.
MetaBuilds ==
    {BuildArgs(BuiltImage(n, <<"R", "G", "B">>, "float32", 1, 1, TRUE, ia, la, None), None) :
        n \in 1..MaxLayers, ia \in ImageAttributeChoices, la \in LayerAttributeChoices}
    \cup
    {BuildArgs(BuiltImage(n, <<"R", "G", "B">>, "float32", 1, 1, TRUE, ia, la, Some(OwnId(1))),
               Some(c)) :
        n \in 1..MaxLayers, ia \in ImageAttributeChoices, la \in LayerAttributeChoices,
        c \in CallerChromaticities}

\* Built images that to_pixels cannot flatten: two layers that differ in
\* width, in height or in the number of channels, and one layer with a
\* channel of one sample too many.
WithExtraSample(layer) ==
    [layer EXCEPT !.channels[Len(layer.channels)].pixels =
        NdArray(@.dtype, <<Len(@.data) + 1>>, Append(@.data, 0))]

MismatchedImages ==
    LET L(i, names, h, w) == BuiltLayer(i, names, "float32", h, w, TRUE, EmptyDict, None)
    IN  UNION {{ExrImage(<<L(1, <<"R", "G", "B">>, h, w), L(2, <<"R", "G", "B">>, h, w + 1)>>,
                         EmptyDict),
                ExrImage(<<L(1, <<"R", "G", "B">>, h, w), L(2, <<"R", "G", "B">>, h + 1, w)>>,
                         EmptyDict),
                ExrImage(<<L(1, <<"R", "G", "B">>, h, w), L(2, <<"R", "G", "B", "A">>, h, w)>>,
                         EmptyDict),
                ExrImage(<<WithExtraSample(L(1, <<"R", "G", "B">>, h, w))>>, EmptyDict)} :
              h \in 1..MaxDim, w \in 1..MaxDim}

MismatchBuilds == {BuildArgs(image, None) : image \in MismatchedImages}

\* ExrImage(layers=[], attributes={}).
EmptyBuilds == {BuildArgs(ExrImage(<<>>, EmptyDict), None)}

InitInputs ==
    /\ heap = PublishedChromaticities
    /\ images = [s \in Slots |-> None]
    /\ origin = [s \in Slots |-> None]
    /\ call \in {[op |-> "input", slot |-> 0, args |-> <<a>>] :
                    a \in TensorInputs \cup PixelBuilds \cup MetaBuilds \cup MismatchBuilds
                              \cup EmptyBuilds}
    /\ result = NoResult

IsTensorInput == call.op = "input" /\ "pixels" \in DOMAIN call.args[1]

IsBuildInput == call.op = "input" /\ "image" \in DOMAIN call.args[1]

NextInputs ==
    \/ IsTensorInput /\ FromPixels(1, call.args[1])
    \/ IsTensorInput /\ call.args[1].colorspace = None /\ call.args[1].layer_names = None
          /\ Load(1, call.args[1].pixels)
    \/ IsBuildInput /\ Construct(1, call.args[1].image, call.args[1].chromaticities)
    \/ \E s \in Slots : call.op # "input" /\ ToPixels(s)
    \/ \E s \in Slots : call.op # "input" /\ SetRed(s)
    \/ \E s \in Slots, strict \in BOOLEAN : call.op # "input" /\ ToBuffer(s, strict)
    \/ \E keep \in BOOLEAN : FromBuffer(MaxImages, keep)
    \/ \E s \in Slots : call.op # "input" /\ InferColorspace(s)

SpecInputs == InitInputs /\ [][NextInputs]_vars

(***************************************************************************)
(* What the claims speak of.                                               *)
(***************************************************************************)
\* The last call was a tensor conversion, with arguments LastArgs.
IsFromPixelsCall == call.op \in {"from_pixels", "load"}

LastArgs == call.args[1]

\* The image of slot s was made by a tensor conversion that returned it.
MadeFromPixels(s) == origin[s] # None /\ origin[s][1].op \in {"from_pixels", "load"}

MadeArgs(s) == origin[s][1].args[1]

DefaultColorspace(a) == a.colorspace \in {None, Some("sRGB")}

\* The encoded image and the decoded one, after a decode.
IsDecode == call.op = "from_buffer" /\ result.kind = "image"

Encoded == call.args[1]

Decoded == result.val[1]

\* C1: for every tensor T of shape (H, W, C) with C in {1, 3, 4} and dtype
\* float16, float32 or uint32, from_pixels(T) returns an image, and to_pixels
\* of that image is T: the same shape, the same dtype, the same sample at
\* every index.
C1Input(a) ==
    /\ a.layer_names = None
    /\ DefaultColorspace(a)
    /\ Len(a.pixels.shape) = 3
    /\ a.pixels.shape[3] \in {1, 3, 4}
    /\ a.pixels.dtype \in {"float16", "float32", "uint32"}

C1_SingleLayerRoundTrip ==
    /\ (IsFromPixelsCall /\ C1Input(LastArgs)) => result.kind = "image"
    /\ \A s \in Slots :
          (call.op = "to_pixels" /\ call.slot = s /\ MadeFromPixels(s) /\ C1Input(MadeArgs(s)))
              => result = Return("pixels", MadeArgs(s).pixels)

\* The part of C1 the code does meet: a tensor of three or four channels
\* comes back from to_pixels as it went in.
C1_RoundTripReached ==
    \E s \in Slots :
        /\ call.op = "to_pixels" /\ call.slot = s /\ MadeFromPixels(s)
        /\ C1Input(MadeArgs(s))
        /\ MadeArgs(s).pixels.shape = <<2, 2, 3>>
        /\ result = Return("pixels", MadeArgs(s).pixels)

\* C2: for every tensor T of shape (N, H, W, C), N >= 1, from_pixels(T)
\* returns an image of exactly N layers, to_pixels of it is T, and when
\* layer_names of length N is given the layers carry these names in that
\* order, also after encode and decode.
C2Input(a) ==
    /\ DefaultColorspace(a)
    /\ Len(a.pixels.shape) = 4
    /\ a.pixels.shape[4] \in {1, 3, 4}
    /\ a.pixels.dtype \in {"float16", "float32", "uint32"}
    /\ a.layer_names # None => Len(a.layer_names[1]) = a.pixels.shape[1]

NamesAre(image, a) ==
    a.layer_names # None =>
        /\ Len(image.layers) = Len(a.layer_names[1])
        /\ \A i \in 1..Len(image.layers) : image.layers[i].name = Some(a.layer_names[1][i])

C2_MultiLayerRoundTrip ==
    /\ (IsFromPixelsCall /\ C2Input(LastArgs)) =>
          /\ result.kind = "image"
          /\ Len(result.val[1].layers) = LastArgs.pixels.shape[1]
          /\ NamesAre(result.val[1], LastArgs)
    /\ \A s \in Slots :
          /\ (call.op = "to_pixels" /\ call.slot = s /\ MadeFromPixels(s) /\ C2Input(MadeArgs(s)))
                => result = Return("pixels", MadeArgs(s).pixels)
          /\ (IsDecode /\ MadeFromPixels(s) /\ C2Input(MadeArgs(s)) /\ images[s] = Some(Encoded))
                => NamesAre(Decoded, MadeArgs(s))

\* C3: decode(encode(image)) has, in every layer, the channels in the order
\* the caller gave them, each with its name, its own plane of shape
\* (height, width) and its dtype.
SameChannel(c, d, h, w) ==
    /\ d.name = c.name
    /\ d.pixels.dtype = c.pixels.dtype
    /\ d.pixels.shape = <<h, w>>
    /\ d.pixels.data = c.pixels.data

C3_ChannelSequenceSurvivesCodec ==
    IsDecode =>
        /\ Len(Decoded.layers) = Len(Encoded.layers)
        /\ \A i \in 1..Len(Encoded.layers) :
              /\ Len(Decoded.layers[i].channels) = Len(Encoded.layers[i].channels)
              /\ \A k \in 1..Len(Encoded.layers[i].channels) :
                    SameChannel(Encoded.layers[i].channels[k], Decoded.layers[i].channels[k],
                                Encoded.layers[i].height, Encoded.layers[i].width)

\* C4: the classification is priority-ordered. (1) A recognized container
\* flag on the image or its layer decides the tag, whatever the
\* chromaticities. (2) Otherwise chromaticities equal on all four primaries
\* to a table entry give its tag: AP0 ACES 2065-1, AP1 ACEScg, sRGB sRGB.
\* (3) Otherwise, also without chromaticities, the result is unknown; it is
\* never an error.
RecognizedFlags(image) ==
    {d[ColorspaceFlagKey].repr :
        d \in {a \in {image.attributes} \cup {image.layers[i].attributes : i \in 1..Len(image.layers)} :
                  HasFlag(a)}}

AllStrings(image) ==
    /\ ~HasNonStringValue(image.attributes)
    /\ \A i \in 1..Len(image.layers) : ~HasNonStringValue(image.layers[i].attributes)

C5_AttributeFidelity ==
    (IsDecode /\ AllStrings(Encoded)) =>
        /\ Decoded.attributes = Encoded.attributes
        /\ Len(Decoded.layers) = Len(Encoded.layers)
        /\ \A i \in 1..Len(Encoded.layers) :
              Decoded.layers[i].attributes = Encoded.layers[i].attributes

\* C6: for every known colorspace tag X, from_pixels(T, X) returns an image
\* whose chromaticities and container flag let the classifier infer exactly
\* X, on the fresh image and after encode and decode; images built for two
\* different tags never carry the same colorspace metadata.
Metadata(image) ==
    [attributes |-> image.attributes,
     layers |-> [i \in 1..Len(image.layers) |->
                    [attributes |-> image.layers[i].attributes,
                     chromaticities |->
                         IF image.layers[i].chromaticities = None THEN None
                         ELSE Some(heap[image.layers[i].chromaticities[1]])]]]

TaggedInput(a) ==
    /\ a.layer_names = None
    /\ a.colorspace # None
    /\ a.colorspace[1] \in KnownTags
    /\ a.pixels.dtype = "float32"
    /\ a.pixels.shape = <<1, 1, 3>>

C6_TaggingIdentifiesColorspace ==
    /\ (call.op = "from_pixels" /\ TaggedInput(LastArgs)) => result.kind = "image"
    /\ \A s \in Slots :
          /\ (call.op = "inferred_colorspace" /\ call.slot = s /\ MadeFromPixels(s)
                 /\ TaggedInput(MadeArgs(s)))
                => result = Return("colorspace", MadeArgs(s).colorspace[1])
          /\ \A t \in Slots :
                (/\ MadeFromPixels(s) /\ TaggedInput(MadeArgs(s))
                 /\ MadeFromPixels(t) /\ TaggedInput(MadeArgs(t))
                 /\ MadeArgs(s).colorspace # MadeArgs(t).colorspace)
                    => Metadata(images[s][1]) # Metadata(images[t][1])

\* Two images built for ACEScg and for ACEScct that carry the same
\* attributes and the same chromaticities.
C6_SharedMetadataReached ==
    \E s, t \in Slots :
        /\ MadeFromPixels(s) /\ TaggedInput(MadeArgs(s))
        /\ MadeFromPixels(t) /\ TaggedInput(MadeArgs(t))
        /\ MadeArgs(s).colorspace = Some("ACEScg")
        /\ MadeArgs(t).colorspace = Some("ACEScct")
        /\ Metadata(images[s][1]) = Metadata(images[t][1])

\* C7: from_pixels attaches to every layer it creates the table entry of the
\* requested colorspace, sRGB when the colorspace is sRGB or omitted (also
\* through load), AP0 for ACES 2065-1, AP1 for ACEScg and ACEScct, and the
\* attached red, green, blue and white are the published values.
PrimariesOf(colorspace) ==
    IF colorspace \in {None, Some("sRGB")} THEN "sRGB"
    ELSE IF colorspace = Some("ACES 2065-1") THEN "AP0"
    ELSE "AP1"

C7_PublishedChromaticitiesAttached ==
    (IsFromPixelsCall /\ result.kind = "image") =>
        \A i \in 1..Len(result.val[1].layers) :
            /\ result.val[1].layers[i].chromaticities # None
            /\ heap[result.val[1].layers[i].chromaticities[1]]
                  = PublishedChromaticities[PrimariesOf(LastArgs.colorspace)]

\* A table entry has been attached with its published values.
C7_PublishedAttachedReached ==
    /\ call.op = "from_pixels"
    /\ LastArgs.colorspace = Some("ACEScg")
    /\ result.kind = "image"
    /\ result.val[1].layers[1].chromaticities = Some(PRIMARY_CHROMATICITIES("AP1"))
    /\ heap["AP1"] = PublishedChromaticities["AP1"]

\* C8: from_pixels on a uint8 tensor returns an image whose channels have
\* dtype uint32 and hold the integers of the input, unscaled, and after
\* encode and decode the channels still have dtype uint32.
C8Input(a) ==
    /\ a.layer_names = None
    /\ DefaultColorspace(a)
    /\ Len(a.pixels.shape) = 3
    /\ a.pixels.shape[3] \in {1, 3, 4}
    /\ a.pixels.dtype = "uint8"

C8_Uint8Promotion ==
    /\ (IsFromPixelsCall /\ C8Input(LastArgs)) =>
          /\ result.kind = "image"
          /\ \A k \in 1..Len(result.val[1].layers[1].channels) :
                /\ result.val[1].layers[1].channels[k].pixels.dtype = "uint32"
                /\ result.val[1].layers[1].channels[k].pixels.data
                      = LastAxisSlice(LastArgs.pixels, k - 1).data
    /\ \A s \in Slots :
          (IsDecode /\ MadeFromPixels(s) /\ C8Input(MadeArgs(s)) /\ images[s] = Some(Encoded))
              => \A i \in 1..Len(Decoded.layers) : \A k \in 1..Len(Decoded.layers[i].channels) :
                    Decoded.layers[i].channels[k].pixels.dtype = "uint32"

\* A uint8 tensor of three channels has been stored as uint32, its integers kept.
C8_PromotionReached ==
    /\ IsFromPixelsCall /\ C8Input(LastArgs)
    /\ LastArgs.pixels.shape = <<2, 2, 3>>
    /\ result.kind = "image"
    /\ \A k \in 1..3 :
          /\ result.val[1].layers[1].channels[k].pixels.dtype = "uint32"
          /\ result.val[1].layers[1].channels[k].pixels.data
                = LastAxisSlice(LastArgs.pixels, k - 1).data

\* C9: chromaticities survive the codec, a caller's override included: when
\* a layer carries chromaticities at encoding, decode(encode(image)) carries
\* chromaticities there too, with the same four primaries, the overridden
\* one at its new value.
C9_ChromaticitiesSurviveCodec ==
    IsDecode =>
        /\ Len(Decoded.layers) = Len(Encoded.layers)
        /\ \A i \in 1..Len(Encoded.layers) :
              Encoded.layers[i].chromaticities # None =>
                  /\ Decoded.layers[i].chromaticities # None
                  /\ heap[Decoded.layers[i].chromaticities[1]]
                        = heap[Encoded.layers[i].chromaticities[1]]

\* C10: from_pixels with layer_names whose length differs from the leading
\* dimension N of the tensor fails at the call with ArityMismatch and
\* returns no image.
ArityMismatch == "layer names arity"

C10Input(a) ==
    /\ Len(a.pixels.shape) = 4
    /\ a.layer_names # None
    /\ Len(a.layer_names[1]) # a.pixels.shape[1]

C10_ArityMismatchRaised ==
    (call.op = "from_pixels" /\ C10Input(LastArgs)) =>
        /\ result.kind = "error"
        /\ result.why = ArityMismatch
        /\ images[call.slot] = None

\* C11: to_pixels on an image whose layers disagree on width, height or
\* channel count, or with a channel whose sample count is not its layer's
\* height * width, fails with ShapeMismatch and returns no tensor.
ShapeMismatch == {"reshape", "stack"}

LayersDisagree(image) ==
    \E i, j \in 1..Len(image.layers) :
        \/ image.layers[i].width # image.layers[j].width
        \/ image.layers[i].height # image.layers[j].height
        \/ Len(image.layers[i].channels) # Len(image.layers[j].channels)

ChannelUnfit(image) ==
    \E i \in 1..Len(image.layers) : \E k \in 1..Len(image.layers[i].channels) :
        Len(image.layers[i].channels[k].pixels.data)
            # image.layers[i].height * image.layers[i].width

C11_ShapeMismatchRaised ==
    (call.op = "to_pixels" /\ (LayersDisagree(call.args[1]) \/ ChannelUnfit(call.args[1]))) =>
        /\ result.kind = "error"
        /\ result.why \in ShapeMismatch

\* to_pixels has refused a layer with a channel of the wrong sample count.
C11_UnfitChannelRefused ==
    /\ call.op = "to_pixels"
    /\ ChannelUnfit(call.args[1])
    /\ result = Raise("ValueError", "reshape")

\* C12: from_pixels on a tensor whose dtype, uint8 apart, is not float16,
\* float32 or uint32 fails with UnsupportedDtype, and on a tensor whose
\* channel count is not 1, 3 or 4 with UnsupportedChannelCount; the call
\* raises, returns no image, casts nothing and drops or pads no channel.
UnsupportedDtype == "dtype"

UnsupportedChannelCount == "channel count"

BadDtype(a) == a.pixels.dtype \notin {"float16", "float32", "uint32", "uint8"}

BadChannelCount(a) == a.pixels.shape[Len(a.pixels.shape)] \notin {1, 3, 4}

C12_InputValidation ==
    IsFromPixelsCall =>
        /\ (BadDtype(LastArgs) \/ BadChannelCount(LastArgs)) =>
              /\ result.kind = "error"
              /\ result.why \in {UnsupportedDtype, UnsupportedChannelCount}
              /\ images[call.slot] = None
        /\ (BadDtype(LastArgs) /\ ~BadChannelCount(LastArgs)) => result.why = UnsupportedDtype
        /\ (BadChannelCount(LastArgs) /\ ~BadDtype(LastArgs)) =>
              result.why = UnsupportedChannelCount

\* A tensor of two channels has been refused for its channel count.
C12_ChannelCountRefused ==
    /\ call.op = "from_pixels"
    /\ LastArgs.pixels.dtype = "float32"
    /\ LastArgs.pixels.shape = <<1, 1, 2>>
    /\ result = Raise("AssertionError", UnsupportedChannelCount)
    /\ images[call.slot] = None

\* C13: for an image that load or from_pixels made of a tensor T of shape
\* (H, W, C), to_pixels returns a tensor of shape (1, H, W, C) with T's
\* dtype, whose slice at leading index 0 is T.
C13_LeadingLayerAxis ==
    \A s \in Slots :
        (call.op = "to_pixels" /\ call.slot = s /\ MadeFromPixels(s)
            /\ Len(MadeArgs(s).pixels.shape) = 3 /\ images[s] = Some(call.args[1]))
          => /\ result.kind = "pixels"
             /\ result.val[1].shape = <<1>> \o MadeArgs(s).pixels.shape
             /\ result.val[1].dtype = MadeArgs(s).pixels.dtype
             /\ result.val[1].data = MadeArgs(s).pixels.data

\* to_pixels has returned the tensor of a one-layer image without a layer axis.
C13_NoLayerAxisReached ==
    \E s \in Slots :
        /\ call.op = "to_pixels" /\ call.slot = s /\ MadeFromPixels(s)
        /\ result.kind = "pixels"
        /\ result.val[1].shape = MadeArgs(s).pixels.shape
        /\ Len(result.val[1].shape) = 3

\* C14: the shared Chromaticities table is never mutated. Whatever the
\* sequence of from_pixels calls and of edits to the chromaticities of the
\* images they return, the entries AP0, AP1 and sRGB keep their published
\* values, and an edit to one image's chromaticities changes the
\* chromaticities of no other image.
ChromaticitiesOf(image, objects) ==
    [i \in 1..Len(image.layers) |->
        IF image.layers[i].chromaticities = None THEN None
        ELSE Some(objects[image.layers[i].chromaticities[1]])]

C14_TableNeverMutated ==
    [][/\ \A n \in PrimaryNames : heap'[n] = PublishedChromaticities[n]
       /\ call'.op = "set_red" =>
             \A t \in Slots \ {call'.slot} :
                 images[t] # None =>
                     ChromaticitiesOf(images'[t][1], heap') = ChromaticitiesOf(images[t][1], heap)]_vars

\* An edit to the red primary of one image has reached the table entry and
\* the other image made with it.
C14_EditReachedTable ==
    \E s, t \in Slots :
        /\ s # t
        /\ call.op = "set_red" /\ call.slot = s
        /\ images[t] # None
        /\ images[t][1].layers[1].chromaticities = Some(PRIMARY_CHROMATICITIES("sRGB"))
        /\ heap["sRGB"].red = <<50000, 50000>>
        /\ heap["sRGB"] # PublishedChromaticities["sRGB"]

\* C15: every image that from_pixels or a decode returns has at least one
\* layer, and in each layer every channel has the layer's width and height,
\* holds exactly width * height samples and has dtype float16, float32 or
\* uint32; the layer from_pixels makes of C channels has exactly the
\* channels named by the first C characters of "RGBA", in that order.
WellFormedLayer(layer) ==
    \A k \in 1..Len(layer.channels) :
        /\ layer.channels[k].width = layer.width
        /\ layer.channels[k].height = layer.height
        /\ Len(layer.channels[k].pixels.data) = layer.width * layer.height
        /\ layer.channels[k].pixels.dtype \in {"float16", "float32", "uint32"}

WellFormed(image) ==
    /\ Len(image.layers) >= 1
    /\ \A i \in 1..Len(image.layers) : WellFormedLayer(image.layers[i])

C15_WellFormedness ==
    /\ (call.op \in {"from_pixels", "load", "from_buffer"} /\ result.kind = "image") =>
          WellFormed(result.val[1])
    /\ (IsFromPixelsCall /\ result.kind = "image") =>
          \A i \in 1..Len(result.val[1].layers) :
              [k \in 1..Len(result.val[1].layers[i].channels) |->
                    result.val[1].layers[i].channels[k].name]
                 = Take(RGBA, LastArgs.pixels.shape[Len(LastArgs.pixels.shape)])

\* A decode has returned an image of two layers, each of four uint32
\* channels two samples wide.
C15_DecodedReached ==
    /\ IsDecode
    /\ Len(Decoded.layers) = 2
    /\ Len(Decoded.layers[1].channels) = 4
    /\ Decoded.layers[1].width = 2
    /\ Decoded.layers[1].channels[1].pixels.dtype = "uint32"

\* C16: attributes map strings to strings everywhere: in every image that
\* from_pixels returns, for any colorspace, every key and every value of
\* the image's attributes and of each layer's attributes is a string, the
\* container flag that from_pixels stamps included.
C16_AttributesAreStrings ==
    (IsFromPixelsCall /\ result.kind = "image") => AllStrings(result.val[1])

\* from_pixels has stamped the container flag with the integer 1.
C16_IntegerFlagReached ==
    /\ IsFromPixelsCall
    /\ result.kind = "image"
    /\ result.val[1].attributes["Aces Image Container Flag"] = IntVal("1")

\* C17: from_pixels with colorspace ACES 2065-1, ACEScg or ACEScct takes
\* float16 and float32 tensors only and fails, returning no image, for
\* uint32 and for uint8; with sRGB or no colorspace it takes float16,
\* float32, uint32 and uint8; uint8 is promoted to uint32 on the sRGB path
\* only.
AcesFamily == {Some(Colorspace.ACES), Some(Colorspace.ACEScg), Some(Colorspace.ACEScct)}

\* A call that nothing but its dtype can stop.
PlainCall(a) ==
    /\ a.layer_names = None
    /\ Len(a.pixels.shape) = 3
    /\ a.pixels.shape[3] \in {3, 4}

ChannelDtypes(image) ==
    UNION {{image.layers[i].channels[k].pixels.dtype : k \in 1..Len(image.layers[i].channels)} :
              i \in 1..Len(image.layers)}

C17_DtypesPerColorspace ==
    call.op = "from_pixels" =>
        /\ (LastArgs.colorspace \in AcesFamily /\ LastArgs.pixels.dtype \in {"uint32", "uint8"}) =>
              /\ result.kind = "error"
              /\ images[call.slot] = None
        /\ (LastArgs.colorspace \in AcesFamily /\ LastArgs.pixels.dtype \in {"float16", "float32"}) =>
              /\ result.why # "dtype"
              /\ PlainCall(LastArgs) => result.kind = "image"
        /\ (DefaultColorspace(LastArgs)
               /\ LastArgs.pixels.dtype \in {"float16", "float32", "uint32", "uint8"}) =>
              /\ result.why # "dtype"
              /\ PlainCall(LastArgs) => result.kind = "image"
        /\ result.kind = "image" =>
              ChannelDtypes(result.val[1]) =
                 {IF LastArgs.pixels.dtype = "uint8" /\ DefaultColorspace(LastArgs)
                  THEN "uint32" ELSE LastArgs.pixels.dtype}

\* A uint32 tensor has been refused on the ACEScg path for its dtype.
C17_AcesRefusesUint32 ==
    /\ call.op = "from_pixels"
    /\ LastArgs.colorspace = Some(Colorspace.ACEScg)
    /\ LastArgs.pixels.dtype = "uint32"
    /\ PlainCall(LastArgs)
    /\ result = Raise("AssertionError", "dtype")

====
